---- MODULE Spec2Model ----
(***************************************************************************)
(* A model of reporter.py, the iTunes Connect reporting client: one        *)
(* invocation of the script, from the parsed command line to the exit of   *)
(* the process.  The state is what the invocation reads and produces: the  *)
(* parsed arguments, the environment, the credential tuples it resolves,   *)
(* the requests it builds and posts, the responses it receives, the files  *)
(* it writes, what it prints and how it exits.                             *)
(*                                                                         *)
(* Python values: an optional value (None or a value) is the sequence <<>> *)
(* or <<v>>; str is a TLA+ string; bytes is a sequence of byte values; a   *)
(* dict is a function from its keys.                                       *)
(***************************************************************************)
EXTENDS Integers, Sequences, FiniteSets, TLC

VARIABLES
    args,       \* main_args, the namespace parse_arguments returned
    environ,    \* os.environ: the optional value of ITC_ACCESS_TOKEN
    pc,         \* "main": before main_args.func; "urlopen": blocked in urlopen; "exited"
    resolved,   \* one entry per get_credentials call, in order
    built,      \* one entry per build_json_request_string call, in order
    sent,       \* the requests handed to urlopen, in order
    received,   \* what urlopen returned or raised, in order
    files,      \* the files opened 'wb' and written, in order
    stdout,     \* the print calls, in order, each with the function that printed
    exc,        \* the exception that ended main_args.func, NoExc if none
    exitCode    \* the process's exit status, None while it runs

vars == <<args, environ, pc, resolved, built, sent, received, files, stdout, exc, exitCode>>

----------------------------------------------------------------------------
(* Bounds of the model *)

\* -a/--account takes any int; the model draws it from 0..MaxAccount (or absent).
MaxAccount == 2

----------------------------------------------------------------------------
(* Python values *)

None == <<>>
Some(v) == <<v>>

\* bool(x) of an optional str: None and '' are false
truthy_str(o) == o # None /\ o[1] # ""

\* bool(x) of an optional int: None and 0 are false
truthy_int(o) == o # None /\ o[1] # 0

Digits == "0123456789"

\* str(n) of an int
RECURSIVE str_int(_)
str_int(n) ==
    IF n < 0 THEN "-" \o str_int(-n)
    ELSE IF n < 10 THEN SubSeq(Digits, n + 1, n + 1)
    ELSE str_int(n \div 10) \o SubSeq(Digits, (n % 10) + 1, (n % 10) + 1)

\* str(x) of an optional int: str(None) is 'None'
str(o) == IF o = None THEN "None" ELSE str_int(o[1])

\* The characters of the model's texts: space, '.', '_', digits and letters,
\* with their ASCII code points.
Upper == "ABCDEFGHIJKLMNOPQRSTUVWXYZ"
Lower == "abcdefghijklmnopqrstuvwxyz"
CodePoints == {32, 46, 95} \cup (48..57) \cup (65..90) \cup (97..122)

chr(b) ==
    CASE b = 32 -> " "
      [] b = 46 -> "."
      [] b = 95 -> "_"
      [] b \in 48..57 -> SubSeq(Digits, b - 47, b - 47)
      [] b \in 65..90 -> SubSeq(Upper, b - 64, b - 64)
      [] b \in 97..122 -> SubSeq(Lower, b - 96, b - 96)

ord(c) == CHOOSE b \in CodePoints : chr(b) = c

\* s.encode('utf-8') of a str over these characters
encode(s) == [i \in 1..Len(s) |-> ord(SubSeq(s, i, i))]

RECURSIVE decode_text(_)
decode_text(b) == IF b = <<>> THEN "" ELSE chr(Head(b)) \o decode_text(Tail(b))

\* b.decode('utf-8'): the text, or UnicodeDecodeError.  The byte strings of the
\* model hold these characters and the bytes 0x1f, 0x8b, 0xff; a byte >= 0x80
\* outside a multi-byte sequence is invalid UTF-8.
decode(b) ==
    IF \A i \in 1..Len(b) : b[i] < 128
    THEN [ok |-> TRUE, text |-> decode_text(b)]
    ELSE [ok |-> FALSE, text |-> ""]

\* a gzip stream of `data`: the magic bytes 1f 8b, then the data (stored)
gzip(data) == <<31, 139>> \o data

\* zlib.decompress(content, 15 + 32): the data, or zlib.error
decompress(content) ==
    IF Len(content) >= 2 /\ content[1] = 31 /\ content[2] = 139
    THEN [ok |-> TRUE, data |-> SubSeq(content, 3, Len(content))]
    ELSE [ok |-> FALSE, data |-> <<>>]

\* s.replace(old, new), old non-empty: every occurrence, left to right
RECURSIVE replace(_, _, _)
replace(s, old, new) ==
    IF Len(s) < Len(old) THEN s
    ELSE IF SubSeq(s, 1, Len(old)) = old
         THEN new \o replace(SubSeq(s, Len(old) + 1, Len(s)), old, new)
         ELSE SubSeq(s, 1, 1) \o replace(SubSeq(s, 2, Len(s)), old, new)

\* s[:-3]
slice_drop3(s) == IF Len(s) <= 3 THEN "" ELSE SubSeq(s, 1, Len(s) - 3)

\* an exception: its class, its message, the source line that raised it
NoExc == [type |-> "None", msg |-> "", line |-> 0]
Raise(type, msg, line) == [type |-> type, msg |-> msg, line |-> line]

\* issubclass(type, ValueError)
IsValueError(type) == type \in {"ValueError", "UnicodeDecodeError"}

UnicodeDecodeMsg == "'utf-8' codec can't decode byte: invalid start byte"

----------------------------------------------------------------------------
(* Module constants *)

VERSION == "2.2"
ENDPOINT_SALES == "https://reportingitc-reporter.apple.com/reportservice/sales/v1"
ENDPOINT_FINANCE == "https://reportingitc-reporter.apple.com/reportservice/finance/v1"

----------------------------------------------------------------------------
(* The command line: the namespaces parse_arguments returns *)

TokenCommands == {"getStatus", "getAccounts", "getVendors", "getVendorsAndRegions", "getSalesReport"}
PasswordCommands == {"generateToken", "viewToken", "deleteToken"}

Services == {"Sales", "Finance"}
Datetypes == {"Daily", "Weekly", "Monthly", "Yearly"}
Dates == {"20230101", "202301", "2023"}
Vendors == {12345}
Accounts == {None} \cup {Some(n) : n \in 0..MaxAccount}
Modes == {"Normal", "Robot.XML"}
UserIds == {"appleid"}

\* -T/--access-token of the commands built on parser_auth_token, which set
\* password=None; -P/--password of those built on parser_auth_password, which
\* set access_token=None.  The option is required, its value may be empty.
AccessTokens == {Some(""), Some("tok")}
Passwords == {Some(""), Some("pw")}

\* what parser.parse_args() can return for the commands and values above
Namespaces ==
    [command : {"getStatus", "getAccounts"}, service : {Some(s) : s \in Services},
     vendor : {None}, datetype : {None}, date : {None},
     access_token : AccessTokens, password : {None},
     account : Accounts, mode : Modes, userid : UserIds]
    \cup
    [command : {"getVendors", "getVendorsAndRegions"}, service : {None},
     vendor : {None}, datetype : {None}, date : {None},
     access_token : AccessTokens, password : {None},
     account : Accounts, mode : Modes, userid : UserIds]
    \cup
    [command : {"getSalesReport"}, service : {None},
     vendor : {Some(v) : v \in Vendors}, datetype : {Some(t) : t \in Datetypes},
     date : {Some(d) : d \in Dates},
     access_token : AccessTokens, password : {None},
     account : Accounts, mode : Modes, userid : UserIds]
    \cup
    [command : PasswordCommands, service : {None},
     vendor : {None}, datetype : {None}, date : {None},
     access_token : {None}, password : Passwords,
     account : Accounts, mode : Modes, userid : UserIds]

\* datetime.datetime.strptime(date, date_format) does not raise; for the Dates
\* of the model, digits only, that is the format's number of digits
strptime_ok(date, date_format) ==
    CASE date_format = "%Y%m%d" -> Len(date) = 8
      [] date_format = "%Y%m" -> Len(date) = 6
      [] date_format = "%Y" -> Len(date) = 4

\* validate_arguments raises no ValueError.  No subcommand defines fiscalyear
\* or fiscalperiod, so hasattr is false for both.
validate_arguments(a) ==
    /\ ~(~truthy_int(a.account)
         /\ a.command \in {"getVendorsAndRegions", "getVendors", "getFinancialReport"})
    /\ a.datetype # None =>
         LET date_format == CASE a.datetype[1] = "Monthly" -> "%Y%m"
                              [] a.datetype[1] = "Yearly" -> "%Y"
                              [] OTHER -> "%Y%m%d"
         IN  strptime_ok(a.date[1], date_format)

\* parse_arguments: parser.error exits on a ValueError of validate_arguments
parse_arguments == {a \in Namespaces : validate_arguments(a)}

Environments == {None, Some("envtok")}

\* what input() returns: a line, or None for EOFError
PromptReplies == {None, Some(""), Some("typed")}

----------------------------------------------------------------------------
(* The server: what urlopen returns or raises *)

Contents == {encode("OK"), <<255>>, gzip(encode("OK"))}

\* header: response.info().  content_type is get_content_type(); downloadmsg,
\* filename, service_request_id are header.get(name).  has_dict says whether
\* the message object has the attribute `dict` that itc_generate_token reads:
\* the object is the one the installed urllib opener returns, and the
\* http.client.HTTPMessage of the default opener has no such attribute (the
\* legacy mimetools message had), so both cases are drawn.
Headers ==
    [content_type : {"text/plain", "application/a-gzip"},
     downloadmsg : {None, Some("Successfully downloaded S_W_12345.txt.gz")},
     filename : {None, Some("S_W_12345.txt.gz"), Some("report.txt"), Some(".gz")},
     service_request_id : {None, Some("REQ1")},
     has_dict : BOOLEAN]

NoHeader ==
    [content_type |-> "", downloadmsg |-> None, filename |-> None,
     service_request_id |-> None, has_dict |-> FALSE]

StatusCodes == {400, 401, 402, 403, 404, 500, 503}
ErrorBodies == {encode("Unauthorized"), <<255>>}

----------------------------------------------------------------------------
(* The command handlers: the endpoint and the command each one posts *)

itc_get_vendors(a) ==
    [endpoint |-> ENDPOINT_SALES, command |-> "Sales.getVendors"]

\* a variant that posts every status query to the sales endpoint
itc_get_status_sales_only(a) ==
    [endpoint |-> ENDPOINT_SALES, command |-> a.service[1] \o ".getStatus"]

itc_get_status(a) ==
    [endpoint |-> IF a.service[1] = "Sales" THEN ENDPOINT_SALES ELSE ENDPOINT_FINANCE,
     command |-> a.service[1] \o ".getStatus"]

itc_get_accounts(a) ==
    [endpoint |-> IF a.service[1] = "Sales" THEN ENDPOINT_SALES ELSE ENDPOINT_FINANCE,
     command |-> a.service[1] \o ".getAccounts"]

itc_get_vendor_and_regions(a) ==
    [endpoint |-> ENDPOINT_FINANCE, command |-> "Finance.getVendorsAndRegions"]

itc_get_sales_report(a) ==
    [endpoint |-> ENDPOINT_SALES,
     command |-> "Sales.getReport, " \o str_int(a.vendor[1]) \o ",Sales,Summary,"
                 \o a.datetype[1] \o "," \o a.date[1]]

itc_view_token(a) ==
    [endpoint |-> ENDPOINT_SALES, command |-> "Sales.viewToken"]

itc_generate_token(a) ==
    [endpoint |-> ENDPOINT_SALES, command |-> "Sales.generateToken"]

itc_delete_token(a) ==
    [endpoint |-> ENDPOINT_SALES, command |-> "Sales.deleteToken"]

\* args.func, as the subparsers' set_defaults(func=...) bind it
func(a) ==
    CASE a.command = "getStatus" -> itc_get_status(a)
      [] a.command = "getAccounts" -> itc_get_accounts(a)
      [] a.command = "getVendors" -> itc_get_vendors(a)
      [] a.command = "getVendorsAndRegions" -> itc_get_vendor_and_regions(a)
      [] a.command = "getSalesReport" -> itc_get_sales_report(a)
      [] a.command = "generateToken" -> itc_generate_token(a)
      [] a.command = "viewToken" -> itc_view_token(a)
      [] a.command = "deleteToken" -> itc_delete_token(a)

----------------------------------------------------------------------------
(* Credentials and requests *)

\* os.getenv('ITC_ACCESS_TOKEN', '')
getenv(env) == IF env = None THEN "" ELSE env[1]

\* a variant that keeps the password when an access token is found
get_credentials_keeps_password(a, env, reply) ==
    LET access_token == IF truthy_str(a.access_token) THEN a.access_token[1] ELSE getenv(env)
        prompted == access_token = "" /\ ~truthy_str(a.password)
        password == IF truthy_str(a.password) THEN a.password[1]
                    ELSE IF access_token # "" \/ reply = None THEN "" ELSE reply[1]
    IN  [exc |-> IF prompted /\ reply = None
                 THEN Raise("EOFError", "EOF when reading a line", 108)
                 ELSE NoExc,
         credentials |-> [userid |-> a.userid, access_token |-> access_token,
                          password |-> password, account |-> str(a.account),
                          mode |-> a.mode],
         env_read |-> ~truthy_str(a.access_token),
         prompted |-> prompted]

\* a variant that reads the environment before it looks at the command line
get_credentials_always_getenv(a, env, reply) ==
    LET access_token == IF truthy_str(a.access_token) THEN a.access_token[1] ELSE getenv(env)
        prompted == access_token = "" /\ ~truthy_str(a.password)
        password == IF access_token = ""
                    THEN IF truthy_str(a.password) THEN a.password[1]
                         ELSE IF reply = None THEN "" ELSE reply[1]
                    ELSE ""
    IN  [exc |-> IF prompted /\ reply = None
                 THEN Raise("EOFError", "EOF when reading a line", 108)
                 ELSE NoExc,
         credentials |-> [userid |-> a.userid, access_token |-> access_token,
                          password |-> password, account |-> str(a.account),
                          mode |-> a.mode],
         env_read |-> TRUE,
         prompted |-> prompted]

\* get_credentials(args), with `reply` what input() returns if it is called:
\* the tuple, or the exception, and whether the environment and the prompt
\* were read
get_credentials(a, env, reply) ==
    LET env_read == ~truthy_str(a.access_token)
        access_token == IF truthy_str(a.access_token) THEN a.access_token[1] ELSE getenv(env)
        prompted == access_token = "" /\ ~truthy_str(a.password)
        password == IF access_token = ""
                    THEN IF truthy_str(a.password) THEN a.password[1]
                         ELSE IF reply = None THEN "" ELSE reply[1]
                    ELSE ""
    IN  [exc |-> IF prompted /\ reply = None
                 THEN Raise("EOFError", "EOF when reading a line", 108)
                 ELSE NoExc,
         credentials |-> [userid |-> a.userid, access_token |-> access_token,
                          password |-> password, account |-> str(a.account),
                          mode |-> a.mode],
         env_read |-> env_read,
         prompted |-> prompted]

\* the replies input() can give to a get_credentials call: any if it prompts
input_replies(a, env) ==
    IF get_credentials(a, env, None).prompted THEN PromptReplies ELSE {None}

\* build_json_request_string: the form, its one field jsonRequest holding the
\* request dict (json.dumps, urlencode and encode keep the dict's keys and
\* values; the form is bytes)
build_json_request_string(credentials, query) ==
    LET request == [userid |-> credentials.userid, version |-> VERSION,
                    mode |-> credentials.mode, queryInput |-> query]
        account == IF credentials.account # ""
                   THEN [account |-> credentials.account] ELSE <<>>
        accesstoken == IF credentials.access_token # ""
                       THEN [accesstoken |-> credentials.access_token] ELSE <<>>
        password == IF credentials.password # ""
                    THEN [password |-> credentials.password] ELSE <<>>
    IN  [jsonRequest |-> request @@ account @@ accesstoken @@ password]

\* post_request up to the Request: the query and request_data, the form
\* followed by the raw parameters appended to it.  `request_data += url_params`
\* is bytes += str: it raises TypeError and appends nothing.
post_request_data(credentials, command, url_params) ==
    LET query == "[p=Reporter.properties, " \o command \o "]"
    IN  [exc |-> IF truthy_str(url_params)
                 THEN Raise("TypeError", "can't concat str to bytes", 137)
                 ELSE NoExc,
         query |-> query,
         request_data |-> [form |-> build_json_request_string(credentials, query),
                           params |-> ""]]

\* urllib.request.Request(endpoint, request_data) with its Accept header
Request(endpoint, request_data) ==
    [endpoint |-> endpoint, data |-> request_data, headers |-> [Accept |-> "*"]]

\* a variant whose list of statuses with a message body lacks 404
post_request_except_no_404(code, body) ==
    IF code = 400 \/ code = 401 \/ code = 403
    THEN IF decode(body).ok
         THEN Raise("ValueError", decode(body).text, 152)
         ELSE Raise("UnicodeDecodeError", UnicodeDecodeMsg, 152)
    ELSE Raise("ValueError",
               "HTTP Error " \o str_int(code) \o ". Did you choose reasonable query arguments?",
               154)

\* post_request's handler of urllib.error.HTTPError
post_request_except(code, body) ==
    IF code = 400 \/ code = 401 \/ code = 403 \/ code = 404
    THEN IF decode(body).ok
         THEN Raise("ValueError", decode(body).text, 152)
         ELSE Raise("UnicodeDecodeError", UnicodeDecodeMsg, 152)
    ELSE Raise("ValueError",
               "HTTP Error " \o str_int(code) \o ". Did you choose reasonable query arguments?",
               154)

\* header.dict['service_request_id'] in itc_generate_token
service_request_id(header) ==
    IF ~header.has_dict
    THEN [exc |-> Raise("AttributeError", "'HTTPMessage' object has no attribute 'dict'", 85),
          value |-> ""]
    ELSE IF header.service_request_id = None
         THEN [exc |-> Raise("KeyError", "'service_request_id'", 85), value |-> ""]
         ELSE [exc |-> NoExc, value |-> header.service_request_id[1]]

----------------------------------------------------------------------------
(* The response processor *)

\* what output_result does when it raises before writing or printing
Raised(e) == [exc |-> e, files |-> <<>>, prints |-> <<>>]

\* a variant that opens the report file before it decompresses the body, and
\* so leaves an empty file behind a corrupt stream
output_result_gzip_opens_first(content, header, unzip) ==
    LET msg == header.downloadmsg
        filename == IF truthy_str(header.filename) THEN header.filename[1] ELSE "report.txt.gz"
        target == IF unzip THEN slice_drop3(filename) ELSE filename
    IN  IF unzip /\ msg = None
        THEN Raised(Raise("AttributeError", "'NoneType' object has no attribute 'replace'", 167))
        ELSE IF target = ""
        THEN Raised(Raise("FileNotFoundError", "No such file or directory", 174))
        ELSE IF unzip /\ ~decompress(content).ok
        THEN [exc |-> Raise("zlib.error", "Error -3 while decompressing data", 169),
              files |-> <<[name |-> target, data |-> <<>>]>>,
              prints |-> <<>>]
        ELSE [exc |-> NoExc,
              files |-> <<[name |-> target,
                           data |-> IF unzip THEN decompress(content).data ELSE content]>>,
              prints |-> <<[by |-> "output_result",
                            text |-> IF msg = None THEN "None"
                                     ELSE IF unzip THEN replace(msg[1], ".txt.gz", ".txt")
                                     ELSE msg[1]]>>]

\* output_result, the branch of a gzip compressed report
output_result_gzip(content, header, unzip) ==
    LET msg == header.downloadmsg
        filename == IF truthy_str(header.filename) THEN header.filename[1] ELSE "report.txt.gz"
        target == IF unzip THEN slice_drop3(filename) ELSE filename
    IN  IF unzip /\ msg = None
        THEN Raised(Raise("AttributeError", "'NoneType' object has no attribute 'replace'", 167))
        ELSE IF unzip /\ ~decompress(content).ok
        THEN Raised(Raise("zlib.error", "Error -3 while decompressing data", 169))
        ELSE IF target = ""
        THEN Raised(Raise("FileNotFoundError", "No such file or directory", 174))
        ELSE [exc |-> NoExc,
              files |-> <<[name |-> target,
                           data |-> IF unzip THEN decompress(content).data ELSE content]>>,
              prints |-> <<[by |-> "output_result",
                            text |-> IF msg = None THEN "None"
                                     ELSE IF unzip THEN replace(msg[1], ".txt.gz", ".txt")
                                     ELSE msg[1]]>>]

\* a variant that also saves a text body to the default report file
output_result_text_saves(content) ==
    IF decode(content).ok
    THEN [exc |-> NoExc,
          files |-> <<[name |-> "report.txt", data |-> content]>>,
          prints |-> <<[by |-> "output_result", text |-> decode(content).text]>>]
    ELSE Raised(Raise("UnicodeDecodeError", UnicodeDecodeMsg, 178))

\* output_result, the branch of any other content type
output_result_text(content) ==
    IF decode(content).ok
    THEN [exc |-> NoExc, files |-> <<>>,
          prints |-> <<[by |-> "output_result", text |-> decode(content).text]>>]
    ELSE Raised(Raise("UnicodeDecodeError", UnicodeDecodeMsg, 178))

\* output_result(result, unzip): the exception it raises, if any, and before
\* it the files it wrote and what it printed
output_result(result, unzip) ==
    LET content == result[1]
        header == result[2]
    IN  IF header.content_type = "application/a-gzip"
        THEN output_result_gzip(content, header, unzip)
        ELSE output_result_text(content)

----------------------------------------------------------------------------
(* __main__ *)

\* except ValueError as main_error: print(main_error)
main_print(e, out) ==
    IF IsValueError(e.type) THEN Append(out, [by |-> "main", text |-> e.msg]) ELSE out

\* exit(0); exit(-1) in the handler; status 1 when the exception is not caught
main_exit(e) ==
    IF e = NoExc THEN 0 ELSE IF IsValueError(e.type) THEN -1 ELSE 1

\* main_args.func returned or raised `e`, having printed `out` and written `fs`
Exit(e, out, fs) ==
    /\ exc' = e
    /\ stdout' = main_print(e, out)
    /\ files' = fs
    /\ exitCode' = Some(main_exit(e))
    /\ pc' = "exited"

\* post_request(endpoint, get_credentials(args), command, url_params) up to the
\* call of urlopen
Post(endpoint, command, url_params, reply) ==
    LET c == get_credentials(args, environ, reply)
        p == post_request_data(c.credentials, command, url_params)
    IN  /\ resolved' = Append(resolved, c)
        /\ IF c.exc # NoExc
           THEN /\ Exit(c.exc, stdout, files)
                /\ UNCHANGED <<built, sent>>
           ELSE /\ built' = Append(built, [credentials |-> c.credentials, query |-> p.query,
                                           request_data |-> p.request_data])
                /\ IF p.exc # NoExc
                   THEN /\ Exit(p.exc, stdout, files)
                        /\ UNCHANGED sent
                   ELSE /\ sent' = Append(sent, Request(endpoint, p.request_data))
                        /\ pc' = "urlopen"
                        /\ UNCHANGED <<exc, stdout, files, exitCode>>

Response(content, header) ==
    [kind |-> "response", code |-> 200, content |-> content, header |-> header]

HTTPError(code, body) ==
    [kind |-> "HTTPError", code |-> code, content |-> body, header |-> NoHeader]

URLError ==
    [kind |-> "URLError", code |-> 0, content |-> <<>>, header |-> NoHeader]

Init ==
    /\ args \in parse_arguments
    /\ environ \in Environments
    /\ pc = "main"
    /\ resolved = <<>>
    /\ built = <<>>
    /\ sent = <<>>
    /\ received = <<>>
    /\ files = <<>>
    /\ stdout = <<>>
    /\ exc = NoExc
    /\ exitCode = None

\* main_args.func(main_args): the handler runs to its first urlopen
Call ==
    /\ pc = "main"
    /\ \E reply \in input_replies(args, environ) :
           Post(func(args).endpoint, func(args).command, None, reply)
    /\ UNCHANGED <<args, environ, received>>

\* urlopen returns the response whose result the handler hands to
\* output_result; then the process exits
Output ==
    /\ pc = "urlopen"
    /\ ~(args.command = "generateToken" /\ Len(sent) = 1)
    /\ \E content \in Contents, header \in Headers :
           LET o == output_result(<<content, header>>, TRUE)
           IN  /\ received' = Append(received, Response(content, header))
               /\ Exit(o.exc, stdout \o o.prints, files \o o.files)
    /\ UNCHANGED <<args, environ, resolved, built, sent>>

\* urlopen returns the first response of itc_generate_token: the handler reads
\* the service request id and posts it back
Confirm ==
    /\ pc = "urlopen"
    /\ args.command = "generateToken"
    /\ Len(sent) = 1
    /\ \E content \in Contents, header \in Headers :
           LET id == service_request_id(header)
           IN  /\ received' = Append(received, Response(content, header))
               /\ IF id.exc # NoExc
                  THEN /\ Exit(id.exc, stdout, files)
                       /\ UNCHANGED <<resolved, built, sent>>
                  ELSE \E reply \in input_replies(args, environ) :
                           Post(ENDPOINT_SALES, itc_generate_token(args).command,
                                Some("&isExistingToken=Y&requestId=" \o id.value), reply)
    /\ UNCHANGED <<args, environ>>

\* urlopen raises HTTPError: post_request raises ValueError, main prints it
Reject ==
    /\ pc = "urlopen"
    /\ \E code \in StatusCodes, body \in ErrorBodies :
           /\ received' = Append(received, HTTPError(code, body))
           /\ Exit(post_request_except(code, body), stdout, files)
    /\ UNCHANGED <<args, environ, resolved, built, sent>>

\* urlopen raises URLError (no connection): nothing catches it
Disconnect ==
    /\ pc = "urlopen"
    /\ received' = Append(received, URLError)
    /\ Exit(Raise("URLError", "urlopen error", 143), stdout, files)
    /\ UNCHANGED <<args, environ, resolved, built, sent>>

Next ==
    \/ Call
    \/ Output
    \/ Confirm
    \/ Reject
    \/ Disconnect

Spec == Init /\ [][Next]_vars

----------------------------------------------------------------------------
(* Properties *)

Last(q) == q[Len(q)]

Exited == pc = "exited"

\* the request dict of a request or of a build
Json(r) == r.form.jsonRequest

\* the first leg of generateToken got a response, and its headers carry (or lack)
\* a service_request_id
FirstResponse == Len(received) >= 1 /\ received[1].kind = "response"
CarriesId == FirstResponse /\ received[1].header.service_request_id # None
LacksId == FirstResponse /\ received[1].header.service_request_id = None

\* the last thing received is the response handed to output_result
OutputLeg ==
    /\ Len(received) >= 1
    /\ Last(received).kind = "response"
    /\ ~(args.command = "generateToken" /\ Len(received) = 1)

Displayed == {i \in 1..Len(stdout) : stdout[i].by = "output_result"}

\* C1: generateToken, when the first response carries a service_request_id,
\* issues exactly two POST requests, both to the sales endpoint with command
\* Sales.generateToken, the second after the first response; the second
\* request's extra parameters are isExistingToken=Y&requestId=<id>, and the
\* second response is what goes to the output step.
C1_TwoRequests ==
    (Exited /\ args.command = "generateToken" /\ CarriesId) =>
        /\ Len(sent) = 2
        /\ \A i \in 1..2 :
               /\ sent[i].endpoint = ENDPOINT_SALES
               /\ Json(sent[i].data).queryInput = "[p=Reporter.properties, Sales.generateToken]"
        /\ sent[2].data.params =
               "&isExistingToken=Y&requestId=" \o received[1].header.service_request_id[1]
        /\ Len(received) = 2
        /\ received[2].kind = "response" =>
               LET o == output_result(<<received[2].content, received[2].header>>, TRUE)
               IN  files = o.files /\ stdout = main_print(o.exc, o.prints)

\* C2: generateToken, when the first response lacks a service_request_id,
\* fails with an error of the taxonomy, reported like the others (raised as
\* ValueError, printed by main, exit status -1), and issues no second request.
C2_ProtocolViolation ==
    (Exited /\ args.command = "generateToken" /\ LacksId) =>
        /\ Len(sent) = 1
        /\ IsValueError(exc.type)
        /\ exitCode = Some(-1)
        /\ Len(stdout) = 1 /\ stdout[1].by = "main"

\* C3: a request built from a tuple with a non-empty access token has no
\* password field; one built from a tuple with only a password has no
\* accesstoken field; no request built or sent carries both.
C3_OneSecret ==
    /\ \A i \in 1..Len(built) :
           LET c == built[i].credentials
               keys == DOMAIN Json(built[i].request_data)
           IN  /\ c = resolved[i].credentials
               /\ c.access_token # "" => "password" \notin keys
               /\ (c.access_token = "" /\ c.password # "") => "accesstoken" \notin keys
               /\ ~({"accesstoken", "password"} \subseteq keys)
    /\ \A i \in 1..Len(sent) :
           ~({"accesstoken", "password"} \subseteq DOMAIN Json(sent[i].data))

\* a password command run with ITC_ACCESS_TOKEN set: the token is sent, the
\* password given with -P is not
C3_Witness ==
    /\ Len(sent) = 1
    /\ args.password = Some("pw")
    /\ environ = Some("envtok")
    /\ Json(sent[1].data).accesstoken = "envtok"
    /\ "password" \notin DOMAIN Json(sent[1].data)

\* C4: with the account absent or zero the built request has no account
\* field; with a nonzero account it has one, equal to the input.
C4_Account ==
    \A i \in 1..Len(built) :
        LET j == Json(built[i].request_data)
        IN  IF truthy_int(args.account)
            THEN "account" \in DOMAIN j /\ j.account = str_int(args.account[1])
            ELSE "account" \notin DOMAIN j

\* C5: every HTTP failure status is classified: 400, 401, 403, 404 fail with
\* the server's body as the message (the ValueError of line 152), every other
\* status with the status code in the generic message (line 154), never the body.
C5_Classify ==
    (Exited /\ Len(received) >= 1 /\ Last(received).kind = "HTTPError") =>
        LET r == Last(received)
        IN  IF r.code \in {400, 401, 403, 404}
            THEN /\ exc.type = "ValueError" /\ exc.line = 152
                 /\ decode(r.content).ok /\ exc.msg = decode(r.content).text
            ELSE /\ exc.type = "ValueError" /\ exc.line = 154
                 /\ exc.msg = "HTTP Error " \o str_int(r.code)
                              \o ". Did you choose reasonable query arguments?"

\* C5, amended: as C5 when the body of a 400, 401, 403 or 404 response is valid
\* UTF-8; when it is not, the failure is the UnicodeDecodeError of decoding it,
\* reported the same way.  Every such failure is printed by main and exits -1.
C5_ClassifyText ==
    (Exited /\ Len(received) >= 1 /\ Last(received).kind = "HTTPError") =>
        LET r == Last(received)
        IN  /\ IF r.code \in {400, 401, 403, 404}
               THEN IF decode(r.content).ok
                    THEN /\ exc.type = "ValueError" /\ exc.line = 152
                         /\ exc.msg = decode(r.content).text
                    ELSE exc.type = "UnicodeDecodeError" /\ exc.line = 152
               ELSE /\ exc.type = "ValueError" /\ exc.line = 154
                    /\ exc.msg = "HTTP Error " \o str_int(r.code)
                                 \o ". Did you choose reasonable query arguments?"
            /\ exitCode = Some(-1)
            /\ stdout = <<[by |-> "main", text |-> exc.msg]>>
            /\ files = <<>>

\* a 404 whose body is b"Unauthorized" fails with the message "Unauthorized"
C5_Witness ==
    /\ Exited
    /\ Len(received) = 1
    /\ received[1] = HTTPError(404, encode("Unauthorized"))
    /\ exc = Raise("ValueError", "Unauthorized", 152)
    /\ stdout = <<[by |-> "main", text |-> "Unauthorized"]>>

\* C6: the response processor writes a file exactly when the content type is
\* application/a-gzip: then one file is written and the download message is
\* displayed; otherwise the body is displayed as text and no file is written.
C6_FileIffGzip ==
    (Exited /\ OutputLeg) =>
        LET r == Last(received)
        IN  IF r.header.content_type = "application/a-gzip"
            THEN /\ Len(files) = 1
                 /\ Len(stdout) = 1 /\ stdout[1].by = "output_result"
                 /\ r.header.downloadmsg # None
                 /\ stdout[1].text = replace(r.header.downloadmsg[1], ".txt.gz", ".txt")
            ELSE /\ files = <<>>
                 /\ decode(r.content).ok
                 /\ stdout = <<[by |-> "output_result", text |-> decode(r.content).text]>>

\* C6, amended: a file is written only if the content type is
\* application/a-gzip, and at most one.  When the processor completes, a gzip
\* response has written exactly one file, the decompressed body, and displayed
\* the download message (its .txt.gz rewritten to .txt), and any other response
\* has displayed its body as text and written nothing.  It completes for a
\* gzip response exactly when the download message is present, the body
\* decompresses and the target name is not empty, and for another response
\* exactly when the body is valid UTF-8; when it fails, nothing is written or
\* displayed.
C6_FileOnlyIfGzip ==
    (Exited /\ OutputLeg) =>
        LET r == Last(received)
            gz == r.header.content_type = "application/a-gzip"
            name == IF truthy_str(r.header.filename) THEN r.header.filename[1]
                    ELSE "report.txt.gz"
        IN  /\ files # <<>> => gz
            /\ Len(files) <= 1
            /\ exc = NoExc <=>
                   IF gz
                   THEN r.header.downloadmsg # None /\ decompress(r.content).ok /\ Len(name) > 3
                   ELSE decode(r.content).ok
            /\ (exc = NoExc /\ gz) =>
                   /\ Len(files) = 1
                   /\ files[1].data = decompress(r.content).data
                   /\ stdout = <<[by |-> "output_result",
                                  text |-> replace(r.header.downloadmsg[1], ".txt.gz", ".txt")]>>
            /\ (exc = NoExc /\ ~gz) =>
                   /\ files = <<>>
                   /\ stdout = <<[by |-> "output_result", text |-> decode(r.content).text]>>
            /\ exc # NoExc => (files = <<>> /\ Displayed = {})

\* a text response b"OK" was displayed as "OK" and no file was written
C6_Witness ==
    /\ Exited
    /\ OutputLeg
    /\ Last(received).header.content_type = "text/plain"
    /\ Last(received).content = <<79, 75>>
    /\ stdout = <<[by |-> "output_result", text |-> "OK"]>>
    /\ files = <<>>
    /\ exitCode = Some(0)

\* C7: the file of an unzipped report is named as the filename header (or
\* report.txt.gz) with exactly a trailing .gz stripped: unchanged if the name
\* does not end in .gz.
C7_StripGz ==
    (Exited /\ OutputLeg /\ Len(files) = 1) =>
        LET h == Last(received).header
            name == IF truthy_str(h.filename) THEN h.filename[1] ELSE "report.txt.gz"
            n == Len(name)
        IN  files[1].name = IF n >= 3 /\ SubSeq(name, n - 2, n) = ".gz"
                            THEN SubSeq(name, 1, n - 3)
                            ELSE name

\* the endpoint and command string of the dispatch table
TableService(a) ==
    CASE a.command \in {"getStatus", "getAccounts"} -> a.service[1]
      [] a.command = "getVendorsAndRegions" -> "Finance"
      [] OTHER -> "Sales"

TableMethod(a) ==
    CASE a.command = "getVendors" -> "getVendors"
      [] a.command = "getStatus" -> "getStatus"
      [] a.command = "getAccounts" -> "getAccounts"
      [] a.command = "getVendorsAndRegions" -> "getVendorsAndRegions"
      [] a.command = "getSalesReport" ->
             "getReport, " \o str_int(a.vendor[1]) \o ",Sales,Summary,"
             \o a.datetype[1] \o "," \o a.date[1]
      [] a.command = "viewToken" -> "viewToken"
      [] a.command = "generateToken" -> "generateToken"
      [] a.command = "deleteToken" -> "deleteToken"

\* C8: every request goes to the endpoint of the dispatch table with the
\* queryInput [p=Reporter.properties, <command string>], and the endpoint is
\* that of the service the command string starts with.
C8_Dispatch ==
    \A i \in 1..Len(sent) :
        LET q == Json(sent[i].data).queryInput
            sales == "[p=Reporter.properties, Sales."
            finance == "[p=Reporter.properties, Finance."
        IN  /\ q = "[p=Reporter.properties, " \o TableService(args) \o "."
                   \o TableMethod(args) \o "]"
            /\ sent[i].endpoint =
                   IF TableService(args) = "Sales" THEN ENDPOINT_SALES ELSE ENDPOINT_FINANCE
            /\ (Len(q) >= Len(sales) /\ SubSeq(q, 1, Len(sales)) = sales)
                   => sent[i].endpoint = ENDPOINT_SALES
            /\ (Len(q) >= Len(finance) /\ SubSeq(q, 1, Len(finance)) = finance)
                   => sent[i].endpoint = ENDPOINT_FINANCE

\* getSalesReport with vendor 12345, Weekly, 20230101, posted to the sales endpoint
C8_Witness ==
    /\ args.command = "getSalesReport"
    /\ Len(sent) = 1
    /\ sent[1].endpoint = ENDPOINT_SALES
    /\ Json(sent[1].data).queryInput =
           "[p=Reporter.properties, Sales.getReport, 12345,Sales,Summary,Weekly,20230101]"

EnvReads == Cardinality({i \in 1..Len(resolved) : resolved[i].env_read})
Prompts == Cardinality({i \in 1..Len(resolved) : resolved[i].prompted})

C10_FailureIsTerminal ==
    /\ exc # NoExc =>
           /\ Exited
           /\ Len(sent) = Len(received)
           /\ files = <<>>
           /\ Displayed = {}
    /\ \A i \in 1..Len(received) :
           received[i].kind # "response" => (i = Len(received) /\ exc # NoExc)
    /\ (args.command = "generateToken" /\ FirstResponse
           /\ (LacksId \/ ~received[1].header.has_dict)) => exc # NoExc
    /\ (OutputLeg /\ Last(received).header.content_type = "application/a-gzip"
           /\ ~decompress(Last(received).content).ok) => exc # NoExc
    /\ (files # <<>> \/ Displayed # {}) =>
           /\ exc = NoExc
           /\ Exited
           /\ Len(received) = (IF args.command = "generateToken" THEN 2 ELSE 1)
           /\ \A i \in 1..Len(received) : received[i].kind = "response"

\* a report whose gzip body is corrupt: zlib.error, and no file
C10_Witness ==
    /\ Exited
    /\ OutputLeg
    /\ Last(received).header.content_type = "application/a-gzip"
    /\ Last(received).header.downloadmsg # None
    /\ exc.type = "zlib.error"
    /\ files = <<>>
    /\ stdout = <<>>

====
